---- MODULE Spec2Model ----
(***************************************************************************)
(* A model of the DrissionPage browser skill:                              *)
(*   - scripts/xsearch.py : main/collect, the incremental feed harvester   *)
(*   - scripts/server.py  : the HTTP handlers around the shared browser    *)
(*                          page and the page digest (_build_snapshot)     *)
(* Strings of the program are TLA+ strings; Python slices, floor division  *)
(* and the JSON values that reach collect() are modelled by what the       *)
(* interpreter does with them.                                             *)
(***************************************************************************)
EXTENDS Integers, Sequences, FiniteSets, TLC

(***************************************************************************)
(* Bounds of the model (not program constants).                            *)
(***************************************************************************)
\* --count is drawn from -1 .. MaxTarget (argparse type=int takes any integer)
MaxTarget == 2
\* longest batch one extract_tweets() call returns
MaxBatchLen == 2
\* length of the long main text of a document
MaxMainLen == 150
\* number of request threads that run handlers concurrently
NumReqs == 2
\* most tabs the model lets /browser/new-tab open
MaxTabs == 2
\* longest list of tweets handed to report()
MaxTweets == 3

(***************************************************************************)
(* Program constants.                                                      *)
(***************************************************************************)
\* xsearch.py:25
MAX_STALE_ROUNDS == 10
\* xsearch.py:191, range(10)
POLL_ATTEMPTS == 10
\* xsearch.py:214, t.get("text", "")[:120]
KEY_LEN == 120
\* xsearch.py:246, ts[:10]
DAY_LEN == 10
\* xsearch.py:267, users.most_common(20)
TOP_USERS == 20

VARIABLES
    \* ---- xsearch.py: main() and the locals of collect() ----
    pc,           \* position in main()/collect()
    target,       \* args.count
    tab,          \* args.tab
    url,          \* collect: url
    attempts,     \* collect: number of finished iterations of "for _wait in range(10)"
    initial,      \* collect: initial, as "if initial:" sees it ("empty" or "batch")
    clicks,       \* the outcomes of the corrective tab clicks of the navigation
    malformed,    \* whether the raw value of the last round was not a list of item objects
    all_tweets,   \* collect: all_tweets
    seen,         \* collect: seen
    stale,        \* collect: stale
    rnd,          \* collect: rnd
    new,          \* collect: new
    error,        \* the exception that ended the run, or "none"
    sessionUsed,  \* whether api() has been called at all in this run
    feed,         \* the hosting page: what the extraction script returns
    \* ---- server.py: one call of _build_snapshot() ----
    snapPc,       \* "ready" before the call, "built" after it
    doc,          \* what the page's element queries return
    max_length,   \* the max_length argument
    result,       \* _build_snapshot: result
    \* ---- server.py: the request handlers and the browser singleton ----
    reqPc,        \* per request thread: position in its handler
    handler,      \* per request thread: the endpoint it serves
    resp,         \* per request thread: the response of its last request
    _lock,        \* threading.Lock: 0 when free, else the thread that holds it
    _page,        \* the global _page: "None" or "page"
    tab_ids,      \* page.tab_ids of the running browser
    active,       \* the tab the page object is attached to
    index,        \* per request thread: req.index of the switch-tab it serves
    \* ---- xsearch.py: one call of report() ----
    repPc,        \* "ready" before the call, "written" after it
    tweets,       \* report: tweets
    users,        \* report: users, a Counter (its items in insertion order)
    daily,        \* report: daily, a Counter (its items in insertion order)
    top           \* the (user, count) pairs written under "## Top Users"

harvestVars == <<pc, target, tab, url, attempts, initial, clicks, malformed,
                 all_tweets, seen, stale, rnd, new, error, sessionUsed, feed>>

snapVars == <<snapPc, doc, max_length, result>>

srvVars == <<reqPc, handler, resp, _lock, _page, tab_ids, active, index>>

repVars == <<repPc, tweets, users, daily, top>>

vars == <<harvestVars, snapVars, srvVars, repVars>>

(***************************************************************************)
(* Python string and integer helpers.                                      *)
(***************************************************************************)
Min(a, b) == IF a <= b THEN a ELSE b
Max(a, b) == IF a >= b THEN a ELSE b

\* s[:n], negative n counted from the end as Python does
Slice(s, n) ==
    IF n >= 0 THEN SubSeq(s, 1, Min(n, Len(s)))
    ELSE SubSeq(s, 1, Max(0, Len(s) + n))

\* sub in s
Contains(s, sub) ==
    \E i \in 1..(Len(s) - Len(sub) + 1) : SubSeq(s, i, i + Len(sub) - 1) = sub

RECURSIVE Rep(_, _)
\* c * n
Rep(c, n) ==
    IF n <= 0 THEN ""
    ELSE LET h == Rep(c, n \div 2) IN IF n % 2 = 0 THEN h \o h ELSE h \o h \o c

(***************************************************************************)
(* The values the extraction script can hand back.                         *)
(*                                                                         *)
(* An entry of a batch is a JSON value: an object with the fields          *)
(* username and text (a missing field reads as "", the default of          *)
(* t.get), an object whose text is not a string, or a value that is no     *)
(* object at all.                                                          *)
(***************************************************************************)
Obj(u, t) == [isObj |-> TRUE, username |-> u, text |-> t, textIsStr |-> TRUE]
BadTextObj == [isObj |-> TRUE, username |-> "@a", text |-> "", textIsStr |-> FALSE]
NonObj == [isObj |-> FALSE, username |-> "", text |-> "", textIsStr |-> TRUE]

\* 120 characters shared by two different long tweets of the same author
LongPrefix == Rep("x", KEY_LEN)

Items ==
    { Obj("@a", "hi"),
      Obj("@a", LongPrefix \o "1"),
      Obj("@a", LongPrefix \o "2"),
      Obj("@b", "hi"),
      Obj("@b", "") }

Entries == Items \cup {BadTextObj, NonObj}

SeqsUpTo(S, n) == UNION { [1..k -> S] : k \in 0..n }

\* a parsed JSON value: a list of entries, a non-empty object, or a scalar
List(items) == [kind |-> "list", items |-> items]
Dict == [kind |-> "dict", items |-> <<>>]
Scalar == [kind |-> "scalar", items |-> <<>>]

Values == { List(b) : b \in SeqsUpTo(Entries, MaxBatchLen) } \cup {Dict, Scalar}

\* the "result" of POST /evaluate: a JSON text (the script ends in
\* JSON.stringify), a string that is no JSON text, or a value that is no string
\* (a scalar, an object, a list of at most one entry)
Raws == { [isStr |-> TRUE, parses |-> TRUE, val |-> v] : v \in Values }
            \cup { [isStr |-> TRUE, parses |-> FALSE, val |-> List(<<>>)] }
            \cup { [isStr |-> FALSE, parses |-> TRUE, val |-> v] :
                      v \in {Dict, Scalar} \cup { List(b) : b \in SeqsUpTo(Entries, 1) } }

WellFormedEntry(e) == e.isObj /\ e.textIsStr

\* a well-formed list of item objects with string fields
WellFormed(raw) ==
    /\ raw.isStr => raw.parses
    /\ raw.val.kind = "list"
    /\ \A i \in 1..Len(raw.val.items) : WellFormedEntry(raw.val.items[i])

\* xsearch.py:124-132
extract_tweets(raw) ==
    IF raw.isStr
    THEN IF raw.parses THEN raw.val ELSE List(<<>>)
    ELSE IF raw.val.kind = "list" THEN raw.val ELSE List(<<>>)

\* Python truth value of what extract_tweets returned ("if initial:")
Truthy(v) == IF v.kind = "list" THEN v.items # <<>> ELSE TRUE

(***************************************************************************)
(* The hosting page, fixed at the first call of the extraction script: in  *)
(* mode "any" every call may return any raw value, in mode "fixed" every   *)
(* call returns the same raw value.                                        *)
(***************************************************************************)
NoRaw == [isStr |-> TRUE, parses |-> FALSE, val |-> List(<<>>)]

Unset == [mode |-> "unset", raw |-> NoRaw]

Feeds == { [mode |-> "any", raw |-> NoRaw] }
            \cup { [mode |-> "fixed", raw |-> r] : r \in Raws }

\* the pages the run can be on when it extracts
FeedsFrom(f) == IF f.mode = "unset" THEN Feeds ELSE {f}

FeedRaws(f) == IF f.mode = "fixed" THEN {f.raw} ELSE Raws

\* the raw value is a JSON text holding exactly one item with a body
SingleValidItem(raw) ==
    /\ raw.isStr /\ raw.parses
    /\ raw.val.kind = "list"
    /\ Len(raw.val.items) = 1
    /\ raw.val.items[1] \in Items
    /\ raw.val.items[1].text # ""

Targets == -1..MaxTarget

\* locations GET /url can report
SearchUrl == "https://x.com/search?q=k&src=typed_query"
URLS == { SearchUrl, SearchUrl \o "&f=live", SearchUrl \o "&f=user",
          "https://x.com/home" }

(***************************************************************************)
(* collect(): the dedup step of one round.                                 *)
(***************************************************************************)
\* xsearch.py:214
Key(t) == <<t.username, Slice(t.text, KEY_LEN)>>

\* the admission test without the empty-body check
Admits_NoBodyCheck(key, sn) == key \notin sn

\* the admission test without the membership check
Admits_NoSeenCheck(key, sn) == key[2] # ""

\* xsearch.py:215
Admits(key, sn) == key \notin sn /\ key[2] # ""

\* insert(0, t) in place of append(t)
AddTweet_Front(acc, t) == <<t>> \o acc

\* xsearch.py:217
AddTweet(acc, t) == Append(acc, t)

RECURSIVE Dedup(_, _, _, _)
\* xsearch.py:213-218, the body of "for t in page_tweets" over a list
Dedup(items, acc, sn, n) ==
    IF items = <<>>
    THEN [all_tweets |-> acc, seen |-> sn, new |-> n, error |-> "none"]
    ELSE LET t == Head(items) IN
         IF ~t.isObj
         THEN [all_tweets |-> acc, seen |-> sn, new |-> n, error |-> "AttributeError"]
         ELSE IF ~t.textIsStr
         THEN [all_tweets |-> acc, seen |-> sn, new |-> n, error |-> "TypeError"]
         ELSE IF Admits(Key(t), sn)
         THEN Dedup(Tail(items), AddTweet(acc, t), sn \cup {Key(t)}, n + 1)
         ELSE Dedup(Tail(items), acc, sn, n)

\* xsearch.py:212-218 for any value of page_tweets: iterating a scalar raises
\* TypeError, iterating a non-empty object yields its keys, which have no .get
ForLoop(v, acc, sn) ==
    CASE v.kind = "scalar" ->
            [all_tweets |-> acc, seen |-> sn, new |-> 0, error |-> "TypeError"]
      [] v.kind = "dict" ->
            [all_tweets |-> acc, seen |-> sn, new |-> 0, error |-> "AttributeError"]
      [] OTHER -> Dedup(v.items, acc, sn, 0)

\* the two branches of the stale update exchanged
NextStale_Inverted(st, n) == IF n = 0 THEN 0 ELSE st + 1

\* xsearch.py:221
NextStale(st, n) == IF n = 0 THEN st + 1 ELSE 0

\* the while condition without the stale test
LoopCond_NoStaleLimit == Len(all_tweets) < target

\* the while condition with the stale test off by one
LoopCond_OffByOne == Len(all_tweets) < target /\ stale <= MAX_STALE_ROUNDS

\* xsearch.py:207
LoopCond == Len(all_tweets) < target /\ stale < MAX_STALE_ROUNDS

\* the break test passed only above the target
TargetReached_Above(acc) == Len(acc) > target

\* xsearch.py:223
TargetReached(acc) == Len(acc) >= target

\* xsearch.py:154
NeedsFallback(u) == ~Contains(u, "search") /\ ~Contains(u, "q=")

\* xsearch.py:171 and 177: whether a corrective click is attempted
NeedsTabClick(tb, u) ==
    \/ tb = "top" /\ Contains(u, "f=")
    \/ tb = "live" /\ ~Contains(u, "f=live")

\* the exception of a failed click leaving collect()
AfterClick_Propagates(outcome) == IF outcome = "failed" THEN "aborted" ELSE "defocus"

\* xsearch.py:172-176 and 178-182: "except Exception: pass", the position after
\* the click whatever its outcome
AfterClick(outcome) == "defocus"

\* the wait loop without its break
PollLeaves_NoBreak(v, n) == n = POLL_ATTEMPTS

\* xsearch.py:191-198: the wait loop is left after its n-th iteration, which
\* extracted v
PollLeaves(v, n) == Truthy(v) \/ n = POLL_ATTEMPTS

(***************************************************************************)
(* server.py: _build_snapshot().                                           *)
(***************************************************************************)
\* " \t\n": the characters str.strip() removes from the texts of the model
IsSpace(c) == c \in {" ", "\n", "\t"}

RECURSIVE LStrip(_)
LStrip(s) ==
    IF Len(s) > 0 /\ IsSpace(SubSeq(s, 1, 1)) THEN LStrip(SubSeq(s, 2, Len(s))) ELSE s

RECURSIVE RStrip(_)
RStrip(s) ==
    IF Len(s) > 0 /\ IsSpace(SubSeq(s, Len(s), Len(s)))
    THEN RStrip(SubSeq(s, 1, Len(s) - 1)) ELSE s

\* str.strip()
Strip(s) == RStrip(LStrip(s))

RECURSIVE Join(_)
\* "\n".join(parts)
Join(parts) ==
    IF parts = <<>> THEN ""
    ELSE IF Len(parts) = 1 THEN parts[1]
    ELSE parts[1] \o "\n" \o Join(Tail(parts))

\* seq[:n] for n >= 0
Take(seq, n) == SubSeq(seq, 1, Min(n, Len(seq)))

\* a or b
Or(a, b) == IF a # "" THEN a ELSE b

\* server.py:581 and 587
TRUNCATED == "\n... (truncated)"

\* the documents of the model: each element query returns one of a few answers
\* (an absent attribute reads as "", which "or" treats like None)
Heading(tag, text) == [tag |-> tag, text |-> text]
Anchor(text, href) == [text |-> text, href |-> href]
Input(type, name, placeholder, value, label) ==
    [type |-> type, tag |-> "input", name |-> name, placeholder |-> placeholder,
     value |-> value, label |-> label]
Button(text, aria, value) == [text |-> text, aria |-> aria, value |-> value]

Docs ==
    [ title : {"T"},
      url : {"http://h/"},
      headings : { <<>>, <<Heading("h1", " Head ")>>, <<Heading("h2", "  ")>> },
      nav_links : { <<>>, <<Anchor("Home", "/"), Anchor(" ", "/x")>> },
      inputs : { <<>>, <<Input("text", "q", "Search", "", ""),
                         Input("", "", "", "v", "Name")>> },
      buttons : { <<>>, <<Button("OK", "", ""), Button("OK", "", ""),
                          Button("", "Close", "")>> },
      links : { <<>>, <<Anchor("More", "/m"), Anchor("More", "/n")>> },
      \* page.ele("css:main, article, [role=main]"): a text, or absent
      main : { [present |-> FALSE, text |-> ""],
               [present |-> TRUE, text |-> " main "],
               [present |-> TRUE, text |-> Rep("m", MaxMainLen)] },
      \* page.ele("tag:body")
      body : { "", "body" } ]

\* max_length: int, any integer is accepted (server.py:499)
Budgets == {-1, 0, 20, 100, 130, 400}

\* server.py:512-520
HeadingsSection(d) ==
    IF d.headings = <<>> THEN <<>>
    ELSE LET hs == Take(d.headings, 30)
             F[i \in 0..Len(hs)] ==
                 IF i = 0 THEN <<>>
                 ELSE IF Strip(hs[i].text) # ""
                      THEN Append(F[i - 1], "  [" \o hs[i].tag \o "] " \o Strip(hs[i].text))
                      ELSE F[i - 1]
         IN <<"## Headings">> \o F[Len(hs)] \o <<"">>

\* server.py:522-531
NavigationSection(d) ==
    IF d.nav_links = <<>> THEN <<>>
    ELSE LET as == Take(d.nav_links, 30)
             F[i \in 0..Len(as)] ==
                 IF i = 0 THEN <<>>
                 ELSE IF Strip(as[i].text) # ""
                      THEN Append(F[i - 1],
                                  "  [" \o Strip(as[i].text) \o "](" \o as[i].href \o ")")
                      ELSE F[i - 1]
         IN <<"## Navigation">> \o F[Len(as)] \o <<"">>

\* server.py:538-544 (label is what _find_label returns, 591-604)
InputLine(inp) ==
    LET itype == Or(inp.type, inp.tag)
        desc == Or(inp.label, Or(inp.placeholder, Or(inp.name, itype)))
    IN "  [" \o itype \o "] " \o desc
          \o (IF inp.value # "" THEN " = \"" \o inp.value \o "\"" ELSE "")

\* server.py:533-545
InputsSection(d) ==
    IF d.inputs = <<>> THEN <<>>
    ELSE LET is == Take(d.inputs, 30)
         IN <<"## Inputs">> \o [i \in 1..Len(is) |-> InputLine(is[i])] \o <<"">>

\* server.py:553
ButtonText(b) == Or(Strip(b.text), Or(b.aria, b.value))

\* server.py:547-557
ButtonsSection(d) ==
    IF d.buttons = <<>> THEN <<>>
    ELSE LET bs == Take(d.buttons, 30)
             F[i \in 0..Len(bs)] ==
                 IF i = 0 THEN [lines |-> <<>>, seen |-> {}]
                 ELSE LET text == ButtonText(bs[i]) IN
                      IF text # "" /\ text \notin F[i - 1].seen
                      THEN [lines |-> Append(F[i - 1].lines, "  [" \o text \o "]"),
                            seen |-> F[i - 1].seen \cup {text}]
                      ELSE F[i - 1]
         IN <<"## Buttons">> \o F[Len(bs)].lines \o <<"">>

\* server.py:559-570
LinksSection(d) ==
    IF d.links = <<>> THEN <<>>
    ELSE LET as == Take(d.links, 40)
             F[i \in 0..Len(as)] ==
                 IF i = 0 THEN [lines |-> <<>>, seen |-> {}]
                 ELSE LET text == Strip(as[i].text) IN
                      IF text # "" /\ text \notin F[i - 1].seen
                      THEN [lines |-> Append(F[i - 1].lines,
                                             "  [" \o text \o "](" \o as[i].href \o ")"),
                            seen |-> F[i - 1].seen \cup {text}]
                      ELSE F[i - 1]
         IN <<"## Links">> \o F[Len(as)].lines \o <<"">>

\* server.py:580-581
CapMain(text, n) ==
    IF Len(text) > n \div 2 THEN Slice(text, n \div 2) \o TRUNCATED ELSE text

\* server.py:573-577: the stripped text of the main region, else of the body
MainText(d) == Strip(IF d.main.present THEN d.main.text ELSE d.body)

\* server.py:572-583
ContentSection(d, n) ==
    LET text == MainText(d)
    IN IF text # "" THEN <<"## Content", CapMain(text, n), "">> ELSE <<>>

\* the whole digest cut after max_length characters, the marker left out
CapResult_NoMarker(r, n) == IF Len(r) > n THEN Slice(r, n) ELSE r

\* server.py:586-587
CapResult(r, n) == IF Len(r) > n THEN Slice(r, n) \o TRUNCATED ELSE r

\* the Content section assembled ahead of the other sections
_build_snapshot_ContentFirst(d, n) ==
    CapResult(
        Join(<<"Page: " \o d.title, "URL: " \o d.url, "">>
             \o ContentSection(d, n) \o HeadingsSection(d) \o NavigationSection(d)
             \o InputsSection(d) \o ButtonsSection(d) \o LinksSection(d)),
        n)

\* server.py:505-588
_build_snapshot(d, n) ==
    CapResult(
        Join(<<"Page: " \o d.title, "URL: " \o d.url, "">>
             \o HeadingsSection(d) \o NavigationSection(d) \o InputsSection(d)
             \o ButtonsSection(d) \o LinksSection(d) \o ContentSection(d, n)),
        n)

SnapIdle ==
    /\ snapPc = "idle"
    /\ doc = [title |-> ""]
    /\ max_length = 0
    /\ result = ""

(***************************************************************************)
(* server.py: the request handlers.  FastAPI runs each "def" handler on a  *)
(* worker thread, so handlers of different requests interleave.            *)
(***************************************************************************)
Reqs == 1..NumReqs

\* POST /wait/element is one handler per value of req.state ("displayed",
\* "hidden", anything else)
WaitOps == { "wait_element_displayed", "wait_element_hidden", "wait_text", "wait_url" }

Handlers == { "navigate", "evaluate", "click", "snapshot", "wait_time",
              "browser_restart", "browser_new_tab", "browser_switch_tab",
              "browser_close_tab", "wait_element_other" } \cup WaitOps

\* how the page call of a wait or of evaluate ends: it returns what was asked
\* for, it returns empty-handed when the timeout has passed, or it raises
Outcomes(h) == IF h = "evaluate" THEN {"returned", "raised"}
               ELSE {"returned", "timed_out", "raised"}

\* server.py:392-403, 410-414, 421-429, 461-462: the response after the page
\* call ended with outcome o ("ok:true" is found=True or matched=True)
AnswerOf(h, o) ==
    CASE h = "evaluate" -> IF o = "raised" THEN "500" ELSE "ok"
      \* 393-394: no try; el is not None
      [] h = "wait_element_displayed" ->
            IF o = "raised" THEN "500"
            ELSE IF o = "returned" THEN "ok:true" ELSE "ok:false"
      \* 396-400: found = True whatever ele_hidden returned
      [] h = "wait_element_hidden" -> IF o = "raised" THEN "ok:false" ELSE "ok:true"
      \* 410-414
      [] h = "wait_text" -> IF o = "returned" THEN "ok:true" ELSE "ok:false"
      \* 421-429: no try around page.url
      [] h = "wait_url" ->
            IF o = "raised" THEN "500"
            ELSE IF o = "returned" THEN "ok:true" ELSE "ok:false"

\* evaluate entered without the lock
TakesLock_NotEvaluate(h) == h \notin {"wait_time", "evaluate"}

\* the handlers whose body is inside "with _lock:" (all but wait_time,
\* server.py:432-435)
TakesLock(h) == h # "wait_time"

\* the handlers that touch _page or the page object
UsesPage(h) == h # "wait_time"

\* a thread is inside a handler's page access: between entering the handler
\* body and leaving it
InSession(t) ==
    reqPc[t] \in {"entered", "launching", "paged", "returned", "timed_out", "raised",
                  "closing", "switching"}

\* the indices /browser/switch-tab is called with (TabSwitchRequest.index: int)
TabIndexes == -1..MaxTabs

SrvIdle ==
    /\ reqPc = <<>>
    /\ handler = <<>>
    /\ resp = <<>>
    /\ _lock = 0
    /\ _page = "None"
    /\ tab_ids = <<>>
    /\ active = 0
    /\ index = <<>>

(***************************************************************************)
(* xsearch.py: report().  Of a tweet the counters read the username (the    *)
(* key may be missing) and the timestamp ("" when the tweet has no <time>). *)
(***************************************************************************)
Tweet(hasUser, u, ts) == [hasUser |-> hasUser, username |-> u, timestamp |-> ts]

Tweets ==
    { Tweet(TRUE, u, ts) : u \in {"@u1", "@u2", "@u3"},
                           ts \in {"2024-01-01T10:00:00.000Z", "2024-01-01T23:59:59.000Z",
                                   "2024-01-02T00:00:00.000Z", ""} }
      \cup { Tweet(FALSE, "", ts) : ts \in {"2024-01-01T10:00:00.000Z", ""} }

\* xsearch.py:243, t.get("username", "unknown")
HandleOf(t) == IF t.hasUser THEN t.username ELSE "unknown"

\* the day taken to be the whole timestamp
DayOf_Whole(ts) == ts

\* xsearch.py:246, ts[:10]
DayOf(ts) == Slice(ts, DAY_LEN)

\* Counter: counter[k] += 1; a new key goes to the end of the items
Inc(counter, k) ==
    IF \E i \in 1..Len(counter) : counter[i][1] = k
    THEN [i \in 1..Len(counter) |->
            IF counter[i][1] = k THEN <<k, counter[i][2] + 1>> ELSE counter[i]]
    ELSE Append(counter, <<k, 1>>)

RECURSIVE CountUsers(_, _)
\* xsearch.py:242-243
CountUsers(ts, counter) ==
    IF ts = <<>> THEN counter
    ELSE CountUsers(Tail(ts), Inc(counter, HandleOf(Head(ts))))

RECURSIVE CountDays(_, _)
\* xsearch.py:242 and 244-246
CountDays(ts, counter) ==
    IF ts = <<>> THEN counter
    ELSE CountDays(Tail(ts),
                   IF Head(ts).timestamp # ""
                   THEN Inc(counter, DayOf(Head(ts).timestamp))
                   ELSE counter)

\* item placed ahead of the items it ties with
InsertByCount_BeforeTies(sorted, item) ==
    LET ahead == SelectSeq(sorted, LAMBDA x : x[2] > item[2])
        behind == SelectSeq(sorted, LAMBDA x : x[2] <= item[2])
    IN ahead \o <<item>> \o behind

\* one step of a stable sort by descending count: item goes behind every item
\* whose count is not smaller
InsertByCount(sorted, item) ==
    LET ahead == SelectSeq(sorted, LAMBDA x : x[2] >= item[2])
        behind == SelectSeq(sorted, LAMBDA x : x[2] < item[2])
    IN ahead \o <<item>> \o behind

RECURSIVE SortByCount(_, _)
\* sorted(items, key=itemgetter(1), reverse=True)
SortByCount(items, sorted) ==
    IF items = <<>> THEN sorted
    ELSE SortByCount(Tail(items), InsertByCount(sorted, Head(items)))

\* Counter.most_common(n)
most_common(counter, n) == Take(SortByCount(counter, <<>>), n)

RepIdle ==
    /\ repPc = "idle"
    /\ tweets = <<>>
    /\ users = <<>>
    /\ daily = <<>>
    /\ top = <<>>

(***************************************************************************)
(* main() and collect() as a state machine.                                *)
(***************************************************************************)
HarvestInit ==
    /\ pc = "main"
    /\ target \in Targets
    /\ tab \in {"top", "live"}
    /\ feed = Unset
    /\ url = ""
    /\ attempts = 0
    /\ initial = "unset"
    /\ clicks = <<>>
    /\ malformed = FALSE
    /\ all_tweets = <<>>
    /\ seen = {}
    /\ stale = 0
    /\ rnd = 0
    /\ new = 0
    /\ error = "none"
    /\ sessionUsed = FALSE
    /\ SnapIdle
    /\ SrvIdle
    /\ RepIdle

\* an api() call that raises: the exception leaves collect() and main()
Raise(exc) ==
    /\ pc' = "aborted"
    /\ error' = exc

\* xsearch.py:292-306: parse the arguments and call collect()
Main ==
    /\ UNCHANGED <<snapVars, srvVars, repVars>>
    /\ pc = "main"
    /\ pc' = "navigate"
    /\ UNCHANGED <<target, tab, url, attempts, initial, clicks, malformed, all_tweets,
                   seen, stale, rnd, new, error, sessionUsed, feed>>

\* xsearch.py:141-148
Navigate ==
    /\ UNCHANGED <<snapVars, srvVars, repVars>>
    /\ pc = "navigate"
    /\ sessionUsed' = TRUE
    /\ \E ok \in BOOLEAN :
         IF ok THEN pc' = "get_url" /\ error' = error ELSE Raise("session")
    /\ UNCHANGED <<target, tab, url, attempts, initial, clicks, malformed, all_tweets,
                   seen, stale, rnd, new, feed>>

\* xsearch.py:150-154
GetUrl ==
    /\ UNCHANGED <<snapVars, srvVars, repVars>>
    /\ pc = "get_url"
    /\ \/ \E u \in URLS :
            /\ url' = u
            /\ pc' = IF NeedsFallback(u) THEN "fallback" ELSE "ensure_tab"
            /\ error' = error
       \/ Raise("session") /\ url' = url
    /\ UNCHANGED <<target, tab, attempts, initial, clicks, malformed, all_tweets,
                   seen, stale, rnd, new, sessionUsed, feed>>

\* xsearch.py:155-168: click the search box, type the query, press Enter,
\* read the location again; any of the four calls may raise
Fallback ==
    /\ UNCHANGED <<snapVars, srvVars, repVars>>
    /\ pc = "fallback"
    /\ \/ \E u \in URLS :
            /\ url' = u
            /\ pc' = "ensure_tab"
            /\ error' = error
       \/ Raise("session") /\ url' = url
    /\ UNCHANGED <<target, tab, attempts, initial, clicks, malformed, all_tweets,
                   seen, stale, rnd, new, sessionUsed, feed>>

\* xsearch.py:170-182: when the location does not fit the tab, one POST /click
\* on the tab's label, which succeeds or raises (element not found, session
\* error)
EnsureTab ==
    /\ UNCHANGED <<snapVars, srvVars, repVars>>
    /\ pc = "ensure_tab"
    /\ IF NeedsTabClick(tab, url)
       THEN \E outcome \in {"ok", "failed"} :
               /\ clicks' = Append(clicks, outcome)
               /\ pc' = AfterClick(outcome)
       ELSE /\ clicks' = clicks
            /\ pc' = "defocus"
    /\ UNCHANGED <<target, tab, url, attempts, initial, malformed, all_tweets,
                   seen, stale, rnd, new, error, sessionUsed, feed>>

\* xsearch.py:184-187; tab and url are not read after this point
Defocus ==
    /\ UNCHANGED <<snapVars, srvVars, repVars>>
    /\ pc = "defocus"
    /\ \/ pc' = "poll" /\ error' = error /\ url' = "" /\ tab' = "top"
       \/ Raise("session") /\ UNCHANGED <<url, tab>>
    /\ UNCHANGED <<target, attempts, initial, clicks, malformed, all_tweets,
                   seen, stale, rnd, new, sessionUsed, feed>>

\* xsearch.py:191-205: one iteration of the wait loop; the loop is left at the
\* first truthy batch or after POLL_ATTEMPTS empty ones, and the collection
\* state is created
Poll ==
    /\ UNCHANGED <<snapVars, srvVars, repVars>>
    /\ pc = "poll"
    /\ attempts < POLL_ATTEMPTS
    /\ \/ \E f \in FeedsFrom(feed) : \E raw \in FeedRaws(f) :
            LET v == extract_tweets(raw) IN
            /\ feed' = f
            /\ error' = error
            /\ initial' = IF Truthy(v) THEN "batch" ELSE "empty"
            /\ attempts' = attempts + 1
            /\ pc' = IF PollLeaves(v, attempts + 1) THEN "loop" ELSE "poll"
       \/ Raise("session") /\ UNCHANGED <<attempts, initial, feed>>
    /\ all_tweets' = <<>>
    /\ seen' = {}
    /\ stale' = 0
    /\ rnd' = 0
    /\ UNCHANGED <<target, tab, url, clicks, malformed, new, sessionUsed>>

\* xsearch.py:207-224: one round that the while condition lets in; attempts
\* and initial are not read after the wait loop, and the record of the
\* navigation's clicks is kept until the first round
Round ==
    /\ UNCHANGED <<snapVars, srvVars, repVars>>
    /\ pc = "loop"
    /\ LoopCond
    /\ rnd' = rnd + 1
    /\ attempts' = 0
    /\ initial' = "unset"
    /\ clicks' = <<>>
    /\ \/ \E raw \in FeedRaws(feed) :
            LET v == extract_tweets(raw)
                r == ForLoop(v, all_tweets, seen)
            IN  /\ malformed' = ~WellFormed(raw)
                /\ all_tweets' = r.all_tweets
                /\ seen' = r.seen
                /\ new' = r.new
                /\ IF r.error # "none"
                   THEN Raise(r.error) /\ stale' = stale
                   ELSE /\ stale' = NextStale(stale, r.new)
                        /\ error' = error
                        /\ pc' = IF TargetReached(r.all_tweets) THEN "done" ELSE "scroll"
       \/ /\ Raise("session")
          /\ UNCHANGED <<malformed, all_tweets, seen, new, stale>>
    /\ UNCHANGED <<target, tab, url, sessionUsed, feed>>

\* xsearch.py:226-228 and 43-60: scroll_down() and the pause
ScrollDown ==
    /\ UNCHANGED <<snapVars, srvVars, repVars>>
    /\ pc = "scroll"
    /\ \/ pc' = "loop" /\ error' = error
       \/ Raise("session")
    /\ UNCHANGED <<target, tab, url, attempts, initial, clicks, malformed, all_tweets,
                   seen, stale, rnd, new, sessionUsed, feed>>

\* xsearch.py:207 false, 230-231: return all_tweets
LoopExit ==
    /\ UNCHANGED <<snapVars, srvVars, repVars>>
    /\ pc = "loop"
    /\ ~LoopCond
    /\ pc' = "done"
    /\ UNCHANGED <<target, tab, url, attempts, initial, clicks, malformed, all_tweets,
                   seen, stale, rnd, new, error, sessionUsed, feed>>

HarvestNext ==
    \/ Main
    \/ Navigate
    \/ GetUrl
    \/ Fallback
    \/ EnsureTab
    \/ Defocus
    \/ Poll
    \/ Round
    \/ ScrollDown
    \/ LoopExit

Init == HarvestInit

Next == HarvestNext

Spec == Init /\ [][Next]_vars

(***************************************************************************)
(* One call of _build_snapshot() on any document of the model.             *)
(***************************************************************************)
HarvestIdle ==
    /\ pc = "idle"
    /\ target = 0
    /\ tab = "top"
    /\ url = ""
    /\ attempts = 0
    /\ initial = "unset"
    /\ clicks = <<>>
    /\ malformed = FALSE
    /\ all_tweets = <<>>
    /\ seen = {}
    /\ stale = 0
    /\ rnd = 0
    /\ new = 0
    /\ error = "none"
    /\ sessionUsed = FALSE
    /\ feed = Unset

SnapInit ==
    /\ HarvestIdle
    /\ SrvIdle
    /\ RepIdle
    /\ snapPc = "ready"
    /\ doc \in Docs
    /\ max_length \in Budgets
    /\ result = ""

\* server.py:502, the call _build_snapshot(page, max_length)
BuildSnapshot ==
    /\ snapPc = "ready"
    /\ snapPc' = "built"
    /\ result' = _build_snapshot(doc, max_length)
    /\ UNCHANGED <<doc, max_length>>
    /\ UNCHANGED <<harvestVars, srvVars, repVars>>

SnapNext == BuildSnapshot

SnapSpec == SnapInit /\ [][SnapNext]_vars

(***************************************************************************)
(* One call of report() on any list of tweets.                             *)
(***************************************************************************)
RepInit ==
    /\ HarvestIdle
    /\ SnapIdle
    /\ SrvIdle
    /\ repPc = "ready"
    /\ tweets \in SeqsUpTo(Tweets, MaxTweets)
    /\ users = <<>>
    /\ daily = <<>>
    /\ top = <<>>

\* xsearch.py:238-289: count the users and the days, write the report
Report ==
    /\ repPc = "ready"
    /\ repPc' = "written"
    /\ users' = CountUsers(tweets, <<>>)
    /\ daily' = CountDays(tweets, <<>>)
    /\ top' = most_common(users', TOP_USERS)
    /\ UNCHANGED tweets
    /\ UNCHANGED <<harvestVars, snapVars, srvVars>>

RepNext == Report

RepSpec == RepInit /\ [][RepNext]_vars

(***************************************************************************)
(* The server under NumReqs concurrent request threads.                    *)
(***************************************************************************)
SrvInit ==
    /\ HarvestIdle
    /\ SnapIdle
    /\ RepIdle
    /\ reqPc = [t \in Reqs |-> "idle"]
    /\ handler = [t \in Reqs |-> "none"]
    /\ resp = [t \in Reqs |-> "none"]
    /\ _lock = 0
    /\ _page = "None"
    /\ tab_ids = <<>>
    /\ active = 0
    /\ index = [t \in Reqs |-> 0]

\* a with block that is left by return but not by an exception or by err()
Release_OnSuccessOnly(t, code) ==
    IF _lock = t /\ code \notin {"400", "500"} THEN 0 ELSE _lock

\* "with _lock:" left by thread t, through return or through an exception: the
\* lock is released if t holds it
Release(t, code) == IF _lock = t THEN 0 ELSE _lock

\* the handler returns or raises: the with block releases the lock
\* (global_exception_handler, server.py:151-154, turns an exception into a 500)
Finish(t, code) ==
    /\ reqPc' = [reqPc EXCEPT ![t] = "idle"]
    /\ handler' = [handler EXCEPT ![t] = "none"]
    /\ resp' = [resp EXCEPT ![t] = code]
    /\ _lock' = Release(t, code)

\* _restart_browser without "_page = None": the reference to the browser that
\* was quit is kept
AfterQuit_Kept(p) == p

\* server.py:67-72: the value of _page after the quit
AfterQuit(p) == "None"

\* server.py:60: ChromiumPage(...) returned; the browser opens with one tab
Launched ==
    /\ _page' = "page"
    /\ tab_ids' = <<1>>
    /\ active' = 1

\* a request arrives and is dispatched to its handler
Arrive(t) ==
    /\ reqPc[t] = "idle"
    /\ \E h \in Handlers : handler' = [handler EXCEPT ![t] = h]
    /\ reqPc' = [reqPc EXCEPT ![t] = "start"]
    /\ resp' = [resp EXCEPT ![t] = "none"]
    /\ UNCHANGED <<_lock, _page, tab_ids, active>>
    /\ UNCHANGED index
    /\ UNCHANGED <<harvestVars, snapVars, repVars>>

\* "with _lock:" entered; Lock.acquire() blocks while another thread holds it
Acquire(t) ==
    /\ reqPc[t] = "start"
    /\ TakesLock(handler[t])
    /\ _lock = 0
    /\ _lock' = t
    /\ reqPc' = [reqPc EXCEPT ![t] = "entered"]
    /\ UNCHANGED <<handler, resp, _page, tab_ids, active>>
    /\ UNCHANGED index
    /\ UNCHANGED <<harvestVars, snapVars, repVars>>

\* server.py:432-435: wait_time sleeps without the lock and without the page
Unlocked(t) ==
    /\ reqPc[t] = "start"
    /\ ~TakesLock(handler[t])
    /\ IF UsesPage(handler[t])
       THEN reqPc' = [reqPc EXCEPT ![t] = "entered"] /\ UNCHANGED <<resp, handler, _lock>>
       ELSE Finish(t, "ok")
    /\ UNCHANGED <<_page, tab_ids, active>>
    /\ UNCHANGED index
    /\ UNCHANGED <<harvestVars, snapVars, repVars>>

\* server.py:56-58 and 62: page = _get_page(); the test "_page is None"
GetPage(t) ==
    /\ reqPc[t] = "entered"
    /\ handler[t] # "browser_restart"
    /\ reqPc' = [reqPc EXCEPT ![t] = IF _page = "None" THEN "launching" ELSE "paged"]
    /\ UNCHANGED <<resp, handler, _lock, _page, tab_ids, active>>
    /\ UNCHANGED index
    /\ UNCHANGED <<harvestVars, snapVars, repVars>>

\* server.py:65-73 and 187-191: quit the old browser (a failing quit is
\* swallowed), clear _page, and enter _get_page(), which finds _page empty
Restart(t) ==
    /\ reqPc[t] = "entered"
    /\ handler[t] = "browser_restart"
    /\ _page' = AfterQuit(_page)
    /\ tab_ids' = <<>>
    /\ active' = 0
    /\ IF _page' = "None"
       THEN /\ reqPc' = [reqPc EXCEPT ![t] = "launching"]
            /\ UNCHANGED <<resp, handler, _lock>>
       ELSE Finish(t, "ok")
    /\ UNCHANGED index
    /\ UNCHANGED <<harvestVars, snapVars, repVars>>

\* server.py:59-62: ChromiumPage(...) returns the page of a new browser, or
\* raises and leaves _page as it was; browser_restart answers at once
Launch(t) ==
    /\ reqPc[t] = "launching"
    /\ \/ /\ Launched
          /\ IF handler[t] = "browser_restart"
             THEN Finish(t, "ok")
             ELSE /\ reqPc' = [reqPc EXCEPT ![t] = "paged"]
                  /\ UNCHANGED <<resp, handler, _lock>>
       \/ /\ Finish(t, "500")
          /\ UNCHANGED <<_page, tab_ids, active>>
    /\ UNCHANGED index
    /\ UNCHANGED <<harvestVars, snapVars, repVars>>

\* server.py:393, 397, 411, 423, 461: the page call of a wait or of evaluate
\* ends; 401-402: an unknown state of wait_element is answered with err()
PageCall(t) ==
    /\ reqPc[t] = "paged"
    /\ handler[t] \in WaitOps \cup {"evaluate", "wait_element_other"}
    /\ IF handler[t] = "wait_element_other"
       THEN Finish(t, "400")
       ELSE /\ \E o \in Outcomes(handler[t]) : reqPc' = [reqPc EXCEPT ![t] = o]
            /\ UNCHANGED <<handler, resp, _lock>>
    /\ UNCHANGED <<_page, tab_ids, active>>
    /\ UNCHANGED index
    /\ UNCHANGED <<harvestVars, snapVars, repVars>>

\* server.py:394-403, 412-414, 425-429, 462 and 151-154: the handler answers
Answer(t) ==
    /\ reqPc[t] \in {"returned", "timed_out", "raised"}
    /\ Finish(t, AnswerOf(handler[t], reqPc[t]))
    /\ UNCHANGED <<_page, tab_ids, active>>
    /\ UNCHANGED index
    /\ UNCHANGED <<harvestVars, snapVars, repVars>>

\* server.py:236-241, 498-502: one call on the page, which may raise
PlainOp(t) ==
    /\ reqPc[t] = "paged"
    /\ handler[t] \in {"navigate", "snapshot"}
    /\ \E code \in {"ok", "500"} : Finish(t, code)
    /\ UNCHANGED <<_page, tab_ids, active>>
    /\ UNCHANGED index
    /\ UNCHANGED <<harvestVars, snapVars, repVars>>

\* server.py:332-343: the element lookup, then the click
Click(t) ==
    /\ reqPc[t] = "paged"
    /\ handler[t] = "click"
    /\ \E code \in {"ok", "400", "500"} : Finish(t, code)
    /\ UNCHANGED <<_page, tab_ids, active>>
    /\ UNCHANGED index
    /\ UNCHANGED <<harvestVars, snapVars, repVars>>

\* the test that lets the tab be closed when it is the only one
IsLastTab_Never(tabs) == Len(tabs) < 1

\* server.py:226
IsLastTab(tabs) == Len(tabs) <= 1

\* page.tab_ids of a browser with n tabs: a tab is named by its place in the
\* list
TabIds(n) == [i \in 1..n |-> i]

\* server.py:194-199; the new tab's place in tab_ids is the browser's choice:
\* behind the other tabs, or ahead of them, which moves the active tab one
\* place back
NewTab(t) ==
    /\ reqPc[t] = "paged"
    /\ handler[t] = "browser_new_tab"
    /\ \/ /\ Len(tab_ids) < MaxTabs
          /\ tab_ids' = TabIds(Len(tab_ids) + 1)
          /\ active' \in {active, active + 1}
          /\ Finish(t, "ok")
       \/ /\ Finish(t, "500")
          /\ UNCHANGED <<tab_ids, active>>
    /\ UNCHANGED <<_page>>
    /\ UNCHANGED index
    /\ UNCHANGED <<harvestVars, snapVars, repVars>>

\* tabs[index] as Python indexes a list: negative indices count from the end
PyIndexOk(n, i) == -n <= i /\ i < n
PyIndex(seq, i) == IF i >= 0 THEN seq[i + 1] ELSE seq[Len(seq) + i + 1]

\* server.py:211: the request body is read, req.index is any integer
SwitchRead(t) ==
    /\ reqPc[t] = "paged"
    /\ handler[t] = "browser_switch_tab"
    /\ \E i \in TabIndexes : index' = [index EXCEPT ![t] = i]
    /\ reqPc' = [reqPc EXCEPT ![t] = "switching"]
    /\ UNCHANGED <<resp, handler, _lock, _page, tab_ids, active>>
    /\ UNCHANGED <<harvestVars, snapVars, repVars>>

\* server.py:214-218: the range test, tabs[req.index] (IndexError below
\* -len(tabs)) and page.to_tab(), which may raise
SwitchTab(t) ==
    /\ reqPc[t] = "switching"
    /\ IF index[t] >= Len(tab_ids)
       THEN Finish(t, "400") /\ UNCHANGED active
       ELSE IF ~PyIndexOk(Len(tab_ids), index[t])
       THEN Finish(t, "500") /\ UNCHANGED active
       ELSE \/ active' = PyIndex(tab_ids, index[t]) /\ Finish(t, "ok")
            \/ Finish(t, "500") /\ UNCHANGED active
    /\ index' = [index EXCEPT ![t] = 0]
    /\ UNCHANGED <<_page, tab_ids>>
    /\ UNCHANGED <<harvestVars, snapVars, repVars>>

\* server.py:225-227: tabs = page.tab_ids and the test of its length
CloseCheck(t) ==
    /\ reqPc[t] = "paged"
    /\ handler[t] = "browser_close_tab"
    /\ IF IsLastTab(tab_ids)
       THEN Finish(t, "400")
       ELSE /\ reqPc' = [reqPc EXCEPT ![t] = "closing"]
            /\ UNCHANGED <<resp, handler, _lock>>
    /\ UNCHANGED <<_page, tab_ids, active>>
    /\ UNCHANGED index
    /\ UNCHANGED <<harvestVars, snapVars, repVars>>

\* server.py:228-229; page.close() closes the active tab and the page object
\* attaches to one of the remaining tabs
CloseTab(t) ==
    /\ reqPc[t] = "closing"
    /\ \/ /\ tab_ids' = TabIds(Len(tab_ids) - 1)
          /\ active' \in IF tab_ids' = <<>> THEN {0}
                         ELSE { tab_ids'[k] : k \in 1..Len(tab_ids') }
          /\ Finish(t, "ok")
       \/ Finish(t, "500") /\ UNCHANGED <<tab_ids, active>>
    /\ UNCHANGED <<_page>>
    /\ UNCHANGED index
    /\ UNCHANGED <<harvestVars, snapVars, repVars>>

SrvNext ==
    \E t \in Reqs :
        \/ Arrive(t)
        \/ Acquire(t)
        \/ Unlocked(t)
        \/ GetPage(t)
        \/ Restart(t)
        \/ Launch(t)
        \/ PageCall(t)
        \/ Answer(t)
        \/ PlainOp(t)
        \/ Click(t)
        \/ NewTab(t)
        \/ SwitchRead(t)
        \/ SwitchTab(t)
        \/ CloseCheck(t)
        \/ CloseTab(t)

SrvSpec == SrvInit /\ [][SrvNext]_vars

\* the steps of thread t after it got past "with _lock:"; each of them ends
\* (the page calls carry timeouts)
Serve(t) ==
    \/ Unlocked(t)
    \/ GetPage(t)
    \/ Restart(t)
    \/ Launch(t)
    \/ PageCall(t)
    \/ Answer(t)
    \/ PlainOp(t)
    \/ Click(t)
    \/ NewTab(t)
    \/ SwitchRead(t)
    \/ SwitchTab(t)
    \/ CloseCheck(t)
    \/ CloseTab(t)

\* a running handler keeps running, and a thread blocked in Lock.acquire() gets
\* the lock at one of its releases
SrvLiveSpec ==
    /\ SrvSpec
    /\ \A t \in Reqs : WF_vars(Serve(t)) /\ SF_vars(Acquire(t))

(***************************************************************************)
(* Claims about the harvester (specification Spec).                        *)
(***************************************************************************)

\* C2 as stated: when every extraction returns the same single valid item, the
\* run ends with exactly 1 record after exactly MAX_STALE_ROUNDS stale rounds
\* following the admitting round, whatever target is.
C2_ConvergenceAnyTarget ==
    (pc = "done" /\ feed.mode = "fixed" /\ SingleValidItem(feed.raw)) =>
        /\ Len(all_tweets) = 1
        /\ stale = MAX_STALE_ROUNDS
        /\ rnd = MAX_STALE_ROUNDS + 1

\* C2 amended: the same for every target >= 2; the run never takes more than
\* MAX_STALE_ROUNDS + 1 rounds on such a feed.
C2_ConvergenceTargetAtLeast2 ==
    (feed.mode = "fixed" /\ SingleValidItem(feed.raw)) =>
        /\ rnd <= MAX_STALE_ROUNDS + 1
        /\ (pc = "done" /\ target >= 2) =>
              /\ Len(all_tweets) = 1
              /\ all_tweets[1] = feed.raw.val.items[1]
              /\ stale = MAX_STALE_ROUNDS
              /\ rnd = MAX_STALE_ROUNDS + 1

C2_Witness ==
    /\ pc = "done"
    /\ feed.mode = "fixed"
    /\ SingleValidItem(feed.raw)
    /\ target >= 2
    /\ Len(all_tweets) = 1
    /\ stale = MAX_STALE_ROUNDS

\* C3: a round whose raw extraction result is malformed admits nothing,
\* increments stale by one and does not end the run with an exception.
C3_ExtractionFailureRecovery ==
    [][(rnd' = rnd + 1 /\ malformed' /\ error' # "session") =>
          /\ pc' # "aborted"
          /\ all_tweets' = all_tweets
          /\ stale' = stale + 1]_vars

\* C4: with a non-positive target no session operation is ever issued.
C4_EagerRejection == target <= 0 => ~sessionUsed

\* C6: scroll_down() is reached only while neither the target nor the stale
\* limit has been reached.
C6_NoAdvanceAtStaleLimit ==
    pc = "scroll" => (Len(all_tweets) < target /\ stale < MAX_STALE_ROUNDS)

\* C7: no record of all_tweets has an empty text and no key of seen has an
\* empty body component.
C7_EmptyBodyRejection ==
    /\ \A i \in 1..Len(all_tweets) : all_tweets[i].text # ""
    /\ \A k \in seen : k[2] # ""

\* a round has processed a batch that holds an item with an author and no text
\* next to an item it admitted
C7_Witness ==
    /\ pc \in {"scroll", "done"}
    /\ rnd >= 1
    /\ new >= 1
    /\ feed.mode = "fixed"
    /\ WellFormed(feed.raw)
    /\ \E i \in 1..Len(feed.raw.val.items) :
          feed.raw.val.items[i].username # "" /\ feed.raw.val.items[i].text = ""

\* C8: no two records of all_tweets have the same (username, text[:120]), and
\* seen is exactly the set of these keys.
C8_DedupUniqueness ==
    LET keyOf(r) == <<r.username, Slice(r.text, 120)>> IN
    /\ \A i, j \in 1..Len(all_tweets) :
          i # j => keyOf(all_tweets[i]) # keyOf(all_tweets[j])
    /\ seen = { keyOf(all_tweets[i]) : i \in 1..Len(all_tweets) }

\* two rounds have processed the same batch of two different tweets with one key
C8_Witness ==
    /\ pc \in {"scroll", "done"}
    /\ rnd >= 2
    /\ Len(all_tweets) = 1
    /\ feed.mode = "fixed"
    /\ WellFormed(feed.raw)
    /\ \E i, j \in 1..Len(feed.raw.val.items) :
          /\ feed.raw.val.items[i] # feed.raw.val.items[j]
          /\ feed.raw.val.items[i].username = feed.raw.val.items[j].username
          /\ feed.raw.val.items[i].text # ""
          /\ Slice(feed.raw.val.items[i].text, 120) = Slice(feed.raw.val.items[j].text, 120)

\* C9: a round that extracts the batch of the round before it (the page returns
\* the same raw value on every call) admits nothing and leaves stale exactly one
\* above its value after that earlier round.
C9_DedupIdempotence ==
    [][(pc = "loop" /\ feed.mode = "fixed" /\ rnd >= 1 /\ rnd' = rnd + 1
            /\ error' = "none") =>
          /\ new' = 0
          /\ all_tweets' = all_tweets
          /\ stale' = stale + 1]_vars

\* the second round of a run whose two rounds extracted the same two-item batch
C9_Witness ==
    /\ feed.mode = "fixed"
    /\ rnd = 2
    /\ Len(feed.raw.val.items) = 2
    /\ Len(all_tweets) = 1
    /\ new = 0
    /\ stale = 1

\* C10: every step leaves all_tweets a prefix of its new value, and all_tweets
\* is never longer than seen has keys.
C10_Monotonicity ==
    [][/\ Len(all_tweets') >= Len(all_tweets)
       /\ SubSeq(all_tweets', 1, Len(all_tweets)) = all_tweets
       /\ Len(all_tweets') <= Cardinality(seen')]_vars

\* a round after the first has appended to a non-empty all_tweets
C10_Witness ==
    /\ feed.mode = "any"
    /\ rnd >= 2
    /\ new >= 1
    /\ Len(all_tweets) > new

\* the raw value is a JSON text holding n items with a body and n different keys
DistinctValidItems(raw, n) ==
    /\ raw.isStr /\ raw.parses
    /\ raw.val.kind = "list"
    /\ Len(raw.val.items) = n
    /\ \A i \in 1..n : raw.val.items[i] \in Items /\ raw.val.items[i].text # ""
    /\ \A i, j \in 1..n : i # j => Key(raw.val.items[i]) # Key(raw.val.items[j])

\* C11: after a round that left len(all_tweets) >= target the run is at its
\* return, never at scroll_down() or back at the loop test; nothing happens
\* after the return; and a first round that extracts target >= 1 valid items
\* with different keys returns exactly these items after one round.
C11_TargetTermination ==
    /\ []((rnd >= 1 /\ pc \in {"scroll", "loop"}) => Len(all_tweets) < target)
    /\ []((pc = "done" /\ target >= 1 /\ feed.mode = "fixed"
            /\ DistinctValidItems(feed.raw, target)) =>
              /\ rnd = 1
              /\ all_tweets = feed.raw.val.items)
    /\ [][pc = "done" => FALSE]_vars

\* the first round extracted two items with different keys and reached target 2
C11_Witness ==
    /\ pc = "done"
    /\ target = 2
    /\ rnd = 1
    /\ new = 2
    /\ Len(all_tweets) = 2
    /\ DistinctValidItems(feed.raw, 2)

\* C18: the wait loop runs at most POLL_ATTEMPTS iterations, goes on only
\* after an empty extraction, and is left for the round loop with an empty
\* collection state either at the first non-empty batch or after the
\* POLL_ATTEMPTS-th empty extraction, which does not abort the run.
C18_BoundedInitialPolling ==
    /\ attempts <= POLL_ATTEMPTS
    /\ pc = "poll" => (attempts < POLL_ATTEMPTS /\ initial # "batch")
    /\ (pc = "loop" /\ rnd = 0) =>
          /\ initial = "batch" \/ (initial = "empty" /\ attempts = POLL_ATTEMPTS)
          /\ all_tweets = <<>> /\ seen = {} /\ stale = 0
    /\ attempts = POLL_ATTEMPTS => (pc \in {"loop", "done"} /\ error = "none")

\* all POLL_ATTEMPTS extractions were empty and the run stands at the round loop
C18_Witness ==
    /\ pc = "loop"
    /\ target >= 1
    /\ attempts = POLL_ATTEMPTS
    /\ initial = "empty"

\* C19: the step after the location check issues a corrective click exactly
\* when the location does not fit the requested tab, never more than one click
\* in a run, and leads to the defocus step without an error whether the click
\* succeeded or failed.
C19_VariantMismatchNonFatal ==
    /\ [](Len(clicks) <= 1)
    /\ [][pc = "ensure_tab" =>
            /\ pc' = "defocus"
            /\ error' = "none"
            /\ clicks' # clicks <=> NeedsTabClick(tab, url)]_vars

\* the corrective click failed and the run stands at its round loop with a
\* first batch found
C19_Witness ==
    /\ clicks = <<"failed">>
    /\ pc = "loop"
    /\ target >= 1
    /\ initial = "batch"

\* C21: whatever the extractions return, a run with target >= 1 never starts
\* more than target * MAX_STALE_ROUNDS rounds and returns with
\* len(all_tweets) >= target or stale = MAX_STALE_ROUNDS; a run with
\* target <= 0 starts no round and returns an empty list.
C21_HarvestTerminationBound ==
    /\ stale <= MAX_STALE_ROUNDS
    /\ target >= 1 =>
          /\ rnd <= target * MAX_STALE_ROUNDS
          /\ pc = "done" => (Len(all_tweets) >= target \/ stale = MAX_STALE_ROUNDS)
    /\ target <= 0 =>
          /\ rnd = 0
          /\ pc = "done" => all_tweets = <<>>

\* a run that returned after exactly target * MAX_STALE_ROUNDS rounds, short of
\* its target, on a page whose batches changed from call to call
C21_Witness ==
    /\ pc = "done"
    /\ target = 2
    /\ feed.mode = "any"
    /\ rnd = target * MAX_STALE_ROUNDS
    /\ Len(all_tweets) = 1
    /\ stale = MAX_STALE_ROUNDS

(***************************************************************************)
(* Claims about the page digest (specification SnapSpec).                  *)
(***************************************************************************)

\* C1: for any document and any budget >= 100 the digest _build_snapshot
\* returns is at most budget characters long, truncated or not.
C1_DigestWithinBudget ==
    (snapPc = "built" /\ max_length >= 100) => Len(result) <= max_length

\* s ends with suffix
EndsWith(s, suffix) ==
    Len(s) >= Len(suffix) /\ SubSeq(s, Len(s) - Len(suffix) + 1, Len(s)) = suffix

\* C12: a digest that is not the whole assembled text of its document shows the
\* marker "... (truncated)"; a digest cut at max_length (it is then longer than
\* max_length) ends with the marker; and when only the main text was cut, the
\* digest holds the kept part of the main text directly followed by the marker.
C12_TruncationMarker ==
    snapPc = "built" =>
        LET whole == _build_snapshot(doc, 1000000)
            half == max_length \div 2
        IN  /\ result # whole => Contains(result, "... (truncated)")
            /\ Len(result) > max_length => EndsWith(result, "\n... (truncated)")
            /\ (Len(result) <= max_length /\ Len(MainText(doc)) > half) =>
                  Contains(result, Slice(MainText(doc), half) \o "\n... (truncated)\n")

\* a digest within its budget whose main text was cut
C12_Witness ==
    /\ snapPc = "built"
    /\ Len(result) <= max_length
    /\ Len(MainText(doc)) > max_length \div 2
    /\ doc.headings # <<>>

\* the text of the digest after its "## Content" line, without the empty line
\* that "\n".join leaves at the end
ContentBlock(s) ==
    LET label == "## Content\n"
        at == CHOOSE i \in 1..Len(s) : SubSeq(s, i, i + Len(label) - 1) = label
    IN SubSeq(s, at + Len(label), Len(s) - 1)

\* C13: in a digest (of any budget >= 100) that was not cut as a whole, the
\* main-content block under "## Content" is at most max_length / 2 characters
\* long.
C13_MainContentCap ==
    (snapPc = "built" /\ max_length >= 100 /\ Len(result) <= max_length
        /\ MainText(doc) # "") =>
        2 * Len(ContentBlock(result)) <= max_length

\* the first position of sub in s, 0 when s does not contain it
Pos(s, sub) ==
    IF Contains(s, sub)
    THEN CHOOSE i \in 1..Len(s) :
            /\ SubSeq(s, i, i + Len(sub) - 1) = sub
            /\ \A k \in 1..(i - 1) : SubSeq(s, k, k + Len(sub) - 1) # sub
    ELSE 0

\* the header and the section labels in the order of the design
SectionLabels ==
    <<"Page: ", "## Headings\n", "## Navigation\n", "## Inputs\n", "## Buttons\n",
      "## Links\n", "## Content\n">>

\* C14 as stated: whenever the document has headings and main content, the
\* digest (of any budget >= 100) holds the Headings section before the Content
\* section.
C14_HeadingsBeforeContent ==
    (snapPc = "built" /\ max_length >= 100 /\ doc.headings # <<>>
        /\ MainText(doc) # "") =>
        /\ Pos(result, "## Headings\n") > 0
        /\ Pos(result, "## Headings\n") < Pos(result, "## Content\n")

\* C14 amended: the labels a digest holds are in the order header, Headings,
\* Navigation, Inputs, Buttons, Links, Content; and a digest that was not cut
\* at max_length holds Headings before Content whenever the document has
\* headings and main content.
C14_SectionOrder ==
    snapPc = "built" =>
        /\ \A i, j \in 1..Len(SectionLabels) :
              (i < j /\ Pos(result, SectionLabels[i]) > 0
                     /\ Pos(result, SectionLabels[j]) > 0) =>
                  Pos(result, SectionLabels[i]) < Pos(result, SectionLabels[j])
        /\ (Len(result) <= max_length /\ doc.headings # <<>> /\ MainText(doc) # "") =>
              /\ Pos(result, "## Headings\n") > 0
              /\ Pos(result, "## Headings\n") < Pos(result, "## Content\n")

\* an uncut digest of a document that has every section
C14_Witness ==
    /\ snapPc = "built"
    /\ Len(result) <= max_length
    /\ \A i \in 1..Len(SectionLabels) : Pos(result, SectionLabels[i]) > 0

\* C20: no section label of a digest (of any budget >= 100) is directly
\* followed by the empty line that closes its section.
C20_NoEmptySection ==
    (snapPc = "built" /\ max_length >= 100) =>
        \A i \in 2..Len(SectionLabels) : ~Contains(result, SectionLabels[i] \o "\n")

(***************************************************************************)
(* Claims about the report (specification RepSpec).                        *)
(***************************************************************************)

\* the keys of a counter, and the count it holds for k (0 for a missing key)
KeysOf(counter) == { counter[i][1] : i \in 1..Len(counter) }

CountOf(counter, k) ==
    IF k \in KeysOf(counter)
    THEN (CHOOSE item \in { counter[i] : i \in 1..Len(counter) } : item[1] = k)[2]
    ELSE 0

\* C16: after report() each handle has one entry in users and its count is the
\* number of tweets with that handle; each day has one entry in daily and its
\* count is the number of tweets whose timestamp[0:10] is that day; and tweets
\* is never changed.
C16_ReportGrouping ==
    /\ [](repPc = "written" =>
            LET n == Len(tweets)
                handles == { HandleOf(tweets[i]) : i \in 1..n }
                days == { Slice(tweets[i].timestamp, 10) : i \in 1..n } \ {""}
            IN  /\ \A i, j \in 1..Len(users) : i # j => users[i][1] # users[j][1]
                /\ \A i, j \in 1..Len(daily) : i # j => daily[i][1] # daily[j][1]
                /\ KeysOf(users) = handles
                /\ KeysOf(daily) = days
                /\ \A h \in handles :
                      CountOf(users, h) =
                          Cardinality({ i \in 1..n : HandleOf(tweets[i]) = h })
                /\ \A d \in days :
                      CountOf(daily, d) =
                          Cardinality({ i \in 1..n : Slice(tweets[i].timestamp, 10) = d }))
    /\ [][tweets' = tweets]_vars

\* the report of (u1, 2024-01-01), (u1, 2024-01-02), (u2, 2024-01-01)
C16_Witness ==
    /\ repPc = "written"
    /\ tweets = << Tweet(TRUE, "@u1", "2024-01-01T10:00:00.000Z"),
                   Tweet(TRUE, "@u1", "2024-01-02T00:00:00.000Z"),
                   Tweet(TRUE, "@u2", "2024-01-01T23:59:59.000Z") >>
    /\ users = << <<"@u1", 2>>, <<"@u2", 1>> >>
    /\ daily = << <<"2024-01-01", 2>>, <<"2024-01-02", 1>> >>

\* the index of the first tweet of handle u
FirstSeen(u) ==
    CHOOSE i \in 1..Len(tweets) :
        /\ HandleOf(tweets[i]) = u
        /\ \A k \in 1..(i - 1) : HandleOf(tweets[k]) # u

\* C17: the Top Users list holds the handles of the tweets (at most TOP_USERS
\* of them) with their counts, by descending count, and handles of equal count
\* in the order in which they first occur in tweets.
C17_TopAuthorRanking ==
    repPc = "written" =>
        LET n == Len(tweets)
            handles == { HandleOf(tweets[i]) : i \in 1..n }
        IN  /\ Len(top) = Min(TOP_USERS, Cardinality(handles))
            /\ \A i \in 1..Len(top) :
                  /\ top[i][1] \in handles
                  /\ top[i][2] = Cardinality({ k \in 1..n : HandleOf(tweets[k]) = top[i][1] })
            /\ \A i, j \in 1..Len(top) :
                  i < j => \/ top[i][2] > top[j][2]
                           \/ /\ top[i][2] = top[j][2]
                              /\ FirstSeen(top[i][1]) < FirstSeen(top[j][1])

\* three handles with one tweet each, listed in the order of the tweets
C17_Witness ==
    /\ repPc = "written"
    /\ top = << <<"@u3", 1>>, <<"@u1", 1>>, <<"@u2", 1>> >>

(***************************************************************************)
(* Claims about the server (specification SrvSpec).                        *)
(***************************************************************************)

\* C15: a wait handler (wait/element displayed or hidden, wait/text, wait/url)
\* whose page call ran into the timeout or raised answers found=false /
\* matched=false, and an evaluate whose page call raised answers with an error.
C15_WaitDegradation ==
    [][\A t \in Reqs :
          (reqPc[t] \in {"timed_out", "raised"} /\ reqPc'[t] = "idle") =>
              IF handler[t] \in WaitOps THEN resp'[t] = "ok:false"
              ELSE resp'[t] = "500"]_vars

\* C22: the server holds a browser or one thread is launching one, never both
\* and never two launches at a time; a launch happens only under the lock
\* while _page is empty; a thread works on the page only while _page is set;
\* browser_restart clears _page (and with it the old browser's tabs) before it
\* launches; and a failed launch leaves _page empty.
C22_SingleBrowserInstance ==
    /\ [](Cardinality({ t \in Reqs : reqPc[t] = "launching" })
            + (IF _page = "None" THEN 0 ELSE 1) <= 1)
    /\ [](\A t \in Reqs :
            /\ reqPc[t] = "launching" => _lock = t
            /\ reqPc[t] \in {"paged", "returned", "timed_out", "raised", "closing",
                            "switching"} =>
                  _page # "None")
    /\ [](_page = "None" <=> tab_ids = <<>>)
    /\ [][\A t \in Reqs :
            /\ (handler[t] = "browser_restart" /\ reqPc[t] = "entered"
                    /\ reqPc'[t] # "entered") =>
                  (_page' = "None" /\ reqPc'[t] = "launching")
            /\ (reqPc[t] = "launching" /\ reqPc'[t] = "idle" /\ resp'[t] = "500") =>
                  _page' = "None"
            /\ (reqPc[t] = "launching" /\ resp'[t] # "500" /\ reqPc'[t] # "launching") =>
                  _page' # "None"]_vars

\* two first requests: one launches the browser, the other waits for the lock
C22_Witness ==
    \E t, u \in Reqs :
        /\ t # u
        /\ reqPc[t] = "launching"
        /\ handler[t] # "browser_restart"
        /\ resp = [r \in Reqs |-> "none"]
        /\ reqPc[u] = "start"
        /\ UsesPage(handler[u])

\* C23: a running browser always has at least one tab; close-tab closes a tab
\* only under the lock and while more than one tab is open; and a close-tab
\* that finds a single tab answers with an error and leaves the tabs as they
\* are.
C23_LastTabNeverClosed ==
    /\ [](_page # "None" => Len(tab_ids) >= 1)
    /\ [](\A t \in Reqs : reqPc[t] = "closing" => (_lock = t /\ Len(tab_ids) > 1))
    /\ [][\A t \in Reqs :
            (handler[t] = "browser_close_tab" /\ reqPc[t] = "paged"
                /\ Len(tab_ids) <= 1 /\ reqPc'[t] # "paged") =>
                  /\ reqPc'[t] = "idle"
                  /\ resp'[t] = "400"
                  /\ tab_ids' = tab_ids
                  /\ active' = active]_vars

\* two close-tab requests while two tabs are open: one is about to close a
\* tab, the other waits for the lock
C23_Witness ==
    \E t, u \in Reqs :
        /\ t # u
        /\ reqPc[t] = "closing"
        /\ Len(tab_ids) = 2
        /\ handler[u] = "browser_close_tab"
        /\ reqPc[u] = "start"

\* C24: a switch-tab whose index is outside 0 .. len(tabs)-1 answers with the
\* out-of-range error (status 400) and leaves the active tab alone; with an
\* index inside the range the active tab changes only to tabs[index].
C24_TabSwitchRangeCheck ==
    [][\A t \in Reqs :
          (reqPc[t] = "switching" /\ reqPc'[t] = "idle") =>
              IF index[t] \in 0..(Len(tab_ids) - 1)
              THEN active' = IF resp'[t] = "ok" THEN tab_ids[index[t] + 1] ELSE active
              ELSE resp'[t] = "400" /\ active' = active]_vars

C5_SessionMutualExclusion ==
    /\ \A t \in Reqs : (InSession(t) /\ UsesPage(handler[t])) => _lock = t
    /\ Cardinality({ t \in Reqs : InSession(t) /\ UsesPage(handler[t]) }) <= 1

\* one thread works on the page while another one waits for the lock
C5_Witness ==
    \E t, u \in Reqs :
        /\ t # u
        /\ reqPc[t] = "paged"
        /\ _lock = t
        /\ reqPc[u] = "start"
        /\ TakesLock(handler[u])
        /\ UsesPage(handler[u])

====
